---- MODULE Spec2Model ----
(***************************************************************************)
(* utils.c of smoker_ctrl: utils_float_to_char, utils_reverse, utils_itoa. *)
(*                                                                         *)
(* One behaviour of the model is one call of one of the three functions,   *)
(* followed step by step (one action per statement group or loop           *)
(* iteration).  Bytes are the integers 0..255.  A uint32_t that can leave  *)
(* the 32-bit integers of TLC (nr, and j of utils_reverse) is a            *)
(* record of two 16-bit limbs [hi, lo] standing for hi * 2^16 + lo.        *)
(***************************************************************************)
EXTENDS Integers, Sequences, FiniteSets, TLC

VARIABLES
    fn,        \* the function called: "itoa", "reverse" or "float"
    pc,        \* the control point of the call
    s,         \* the buffer s of utils_itoa / utils_reverse
    s0,        \* the buffer as it was before the (first) call
    n,         \* utils_itoa: n
    s_max,     \* utils_itoa: s_max
    i,         \* utils_itoa: i
    is_minus,  \* utils_itoa: is_minus
    nr,        \* utils_itoa: nr (limbs)
    ret,       \* the value returned by the call (NoRet before the return)
    writes,    \* utils_itoa: the stores made into s, as [idx, kind]
    caller,    \* utils_reverse: "itoa" when called from utils_itoa
    s_len,     \* utils_reverse: s_len
    rev_i,     \* utils_reverse: i
    rev_j,     \* utils_reverse: j (limbs)
    touched,   \* utils_reverse: indices of s read or written by this call
    oob,       \* utils_reverse: indices outside the buffer it accessed (limbs)
    calls,     \* number of calls of utils_reverse made so far
    val,       \* utils_float_to_char: val, as a count of thousandths
    valExp,    \* decimal exponent scaling val: the input is val * 10^valExp / 1000
    conv,      \* what an out-of-range float -> int16_t conversion yields
    out,       \* utils_float_to_char: out[0..19]
    tmp,       \* utils_float_to_char: tmp[0..19]
    sp,        \* utils_float_to_char: s - tmp
    decimals,  \* utils_float_to_char: decimals
    units,     \* utils_float_to_char: units
    f_i,       \* utils_float_to_char: i
    f_j,       \* utils_float_to_char: j
    tmpOob     \* utils_float_to_char: a store through s landed outside tmp

vars == <<fn, pc, s, s0, n, s_max, i, is_minus, nr, ret, writes, caller, s_len,
          rev_i, rev_j, touched, oob, calls, val, valExp, conv, out, tmp, sp,
          decimals, units, f_i, f_j, tmpOob>>

itoaVars  == <<n, s_max, i, is_minus, nr, writes>>
revVars   == <<s_len, rev_i, rev_j, touched, oob>>
floatVars == <<val, valExp, conv, out, tmp, sp, decimals, units, f_i, f_j, tmpOob>>

-----------------------------------------------------------------------------
(* Bounds of the model *)

MaxSMax     == 12   \* s_max ranges over 0..MaxSMax
SmallN      == 20   \* every n in -SmallN..SmallN is an input of utils_itoa
ItoaSlack   == 3    \* bytes of the itoa buffer after index MaxSMax
RevBufLen   == 4    \* size of the buffer handed to a direct utils_reverse call
HugeExp     == 20   \* decimal exponent of the huge inputs of utils_float_to_char

-----------------------------------------------------------------------------
(* Program constants *)

CharZero  == 48     \* '0'
CharMinus == 45     \* '-'
CharDot   == 46     \* '.'
CharNul   == 0      \* '\0'
TmpLen    == 20     \* uint8_t tmp[20]; the out buffer is cleared over the same length
Scale     == 100    \* two decimals
Base      == 10

TwoPow16  == 2^16
TwoPow15  == 2^15
Int32Min  == (-2147483647) - 1
Int32Max  == 2147483647
NoRet     == -1

-----------------------------------------------------------------------------
(* uint32_t as two 16-bit limbs *)

U32(x) == [hi |-> x \div TwoPow16, lo |-> x % TwoPow16]

U32Max == [hi |-> TwoPow16 - 1, lo |-> TwoPow16 - 1]

\* (uint32_t) v for an int32_t v: the two's complement bit pattern
U32FromInt32(v) == [hi |-> (v \div TwoPow16) % TwoPow16, lo |-> v % TwoPow16]

U32IsZero(u) == u.hi = 0 /\ u.lo = 0

U32Lt(a, b) == a.hi < b.hi \/ (a.hi = b.hi /\ a.lo < b.lo)

\* u - 1 modulo 2^32
U32Dec(u) ==
    IF u.lo > 0 THEN [hi |-> u.hi, lo |-> u.lo - 1]
    ELSE IF u.hi > 0 THEN [hi |-> u.hi - 1, lo |-> TwoPow16 - 1]
    ELSE U32Max

\* u % 10 and u / 10 by long division over the limbs
U32Mod10(u) == ((u.hi % Base) * TwoPow16 + u.lo) % Base

U32Div10(u) ==
    [hi |-> u.hi \div Base, lo |-> ((u.hi % Base) * TwoPow16 + u.lo) \div Base]

\* the index a uint32_t denotes, when it is below 2^31
U32Small(u) == u.hi < TwoPow15

U32ToNat(u) == u.hi * TwoPow16 + u.lo

-----------------------------------------------------------------------------
(* utils_itoa, lines 100-139 *)

\* -n on int32_t where it is defined; for n = INT32_MIN the negation overflows
\* and NegInt32 gives what a two's complement negate instruction leaves
NegInt32(v) == IF v = Int32Min THEN Int32Min ELSE -v

ItoaMagnitude_NoNegate(v) == U32FromInt32(v)

\* lines 106-115: the value stored into nr
ItoaMagnitude(v) == IF v < 0 THEN U32FromInt32(NegInt32(v)) ELSE U32FromInt32(v)

\* line 120: ((uint8_t)( nr % 10 )) + '0'
ItoaDigitChar(u) == (U32Mod10(u) % 256) + CharZero

ItoaLoopContinues_OffByOne(u, k, max) == (~U32IsZero(u)) /\ (k <= max)

\* line 124: while (( nr > 0 ) && ( i < s_max ))
ItoaLoopContinues(u, k, max) == (~U32IsZero(u)) /\ (k < max)

ItoaComplete_Always(u) == TRUE

\* line 126: if ( 0 == nr )
ItoaComplete(u) == U32IsZero(u)

ItoaReverseLen_OneLess(k) == k - 1

\* line 135: the length handed to utils_reverse
ItoaReverseLen(k) == k

\* lines 106-110, n < 0 and -n representable
ItoaNegative ==
    /\ pc = "itoa_entry"
    /\ n < 0
    /\ n # Int32Min
    /\ is_minus' = TRUE
    /\ nr' = ItoaMagnitude(n)
    /\ i' = 0
    /\ pc' = "itoa_loop"
    /\ UNCHANGED <<fn, s, s0, n, s_max, ret, writes, caller, calls>>
    /\ UNCHANGED revVars
    /\ UNCHANGED floatVars

\* lines 106-110, n = INT32_MIN: -n overflows int32_t, which is undefined.  The
\* build either negates in two's complement (the value wraps to INT32_MIN and
\* the conversion gives 2^31) or traps on the overflow and the call never returns.
ItoaNegativeOverflow ==
    /\ pc = "itoa_entry"
    /\ n = Int32Min
    /\ \E outcome \in {"wrap", "trap"} :
          IF outcome = "wrap"
          THEN /\ is_minus' = TRUE
               /\ nr' = ItoaMagnitude(n)
               /\ pc' = "itoa_loop"
          ELSE /\ is_minus' = TRUE
               /\ nr' = nr
               /\ pc' = "trap"
    /\ i' = 0
    /\ UNCHANGED <<fn, s, s0, n, s_max, ret, writes, caller, calls>>
    /\ UNCHANGED revVars
    /\ UNCHANGED floatVars

\* lines 111-117
ItoaPositive ==
    /\ pc = "itoa_entry"
    /\ n >= 0
    /\ is_minus' = FALSE
    /\ nr' = ItoaMagnitude(n)
    /\ i' = 0
    /\ pc' = "itoa_loop"
    /\ UNCHANGED <<fn, s, s0, n, s_max, ret, writes, caller, calls>>
    /\ UNCHANGED revVars
    /\ UNCHANGED floatVars

\* lines 118-124: one pass through the do-while body, then its condition
ItoaDigit ==
    /\ pc = "itoa_loop"
    /\ s' = [s EXCEPT ![i] = ItoaDigitChar(nr)]
    /\ writes' = writes \cup {[idx |-> i, kind |-> "digit"]}
    /\ i' = i + 1
    /\ nr' = U32Div10(nr)
    /\ pc' = IF ItoaLoopContinues(nr', i', s_max) THEN "itoa_loop" ELSE "itoa_check"
    /\ UNCHANGED <<fn, s0, n, s_max, is_minus, ret, caller, calls>>
    /\ UNCHANGED revVars
    /\ UNCHANGED floatVars

\* lines 126-135: the value was consumed: sign, terminator, call utils_reverse( s, i )
ItoaFinish ==
    /\ pc = "itoa_check"
    /\ ItoaComplete(nr)
    /\ LET k == IF is_minus THEN i + 1 ELSE i
           withSign == IF is_minus THEN [s EXCEPT ![i] = CharMinus] ELSE s
       IN  /\ s' = [withSign EXCEPT ![k] = CharNul]
           /\ writes' = writes
                          \cup (IF is_minus THEN {[idx |-> i, kind |-> "sign"]} ELSE {})
                          \cup {[idx |-> k, kind |-> "nul"]}
           /\ i' = k
           /\ s_len' = ItoaReverseLen(k)
    /\ caller' = "itoa"
    /\ calls' = calls + 1
    /\ pc' = "rev_entry"
    /\ UNCHANGED <<fn, s0, n, s_max, is_minus, nr, ret>>
    /\ UNCHANGED <<rev_i, rev_j, touched, oob>>
    /\ UNCHANGED floatVars

\* lines 126, 138: nr is not 0: nothing more is stored, i is returned
ItoaTruncated ==
    /\ pc = "itoa_check"
    /\ ~ItoaComplete(nr)
    /\ ret' = i
    /\ pc' = "done"
    /\ UNCHANGED <<fn, s, s0, caller, calls>>
    /\ UNCHANGED itoaVars
    /\ UNCHANGED revVars
    /\ UNCHANGED floatVars

\* line 138 after utils_reverse has returned
ItoaReturn ==
    /\ pc = "itoa_return"
    /\ ret' = i
    /\ pc' = "done"
    /\ UNCHANGED <<fn, s, s0, caller, calls>>
    /\ UNCHANGED itoaVars
    /\ UNCHANGED revVars
    /\ UNCHANGED floatVars

-----------------------------------------------------------------------------
(* utils_reverse, lines 83-98 *)

ReverseInitJ_NoMinusOne(len) == U32(len)

\* line 89: j = ( s_len - 1 ), in uint32_t
ReverseInitJ(len) == U32Dec(U32(len))

\* lines 89, 91: j = s_len - 1; i = 0
ReverseEnter ==
    /\ pc = "rev_entry"
    /\ rev_j' = ReverseInitJ(s_len)
    /\ rev_i' = 0
    /\ touched' = {}
    /\ oob' = {}
    /\ pc' = "rev_loop"
    /\ UNCHANGED <<fn, s, s0, ret, caller, calls, s_len>>
    /\ UNCHANGED itoaVars
    /\ UNCHANGED floatVars

\* lines 91-96: i < j and both indices inside the buffer
ReverseSwap ==
    /\ pc = "rev_loop"
    /\ U32Lt(U32(rev_i), rev_j)
    /\ U32Small(rev_j)
    /\ U32ToNat(rev_j) \in DOMAIN s
    /\ LET j == U32ToNat(rev_j)
       IN  /\ s' = [s EXCEPT ![rev_i] = s[j], ![j] = s[rev_i]]
           /\ touched' = touched \cup {rev_i, j}
    /\ rev_i' = rev_i + 1
    /\ rev_j' = U32Dec(rev_j)
    /\ UNCHANGED <<fn, pc, s0, ret, caller, calls, s_len, oob>>
    /\ UNCHANGED itoaVars
    /\ UNCHANGED floatVars

\* lines 91-96: i < j and s[j] lies outside the buffer.  The load of s[j] is
\* undefined: s[i] receives whatever byte is there, and the store to s[j] lands
\* outside the buffer.  The model records the access and follows the call no further.
ReverseSwapOutside ==
    /\ pc = "rev_loop"
    /\ U32Lt(U32(rev_i), rev_j)
    /\ ~(U32Small(rev_j) /\ U32ToNat(rev_j) \in DOMAIN s)
    /\ \E b \in {CharNul, CharZero, 255} : s' = [s EXCEPT ![rev_i] = b]
    /\ touched' = touched \cup {rev_i}
    /\ oob' = oob \cup {rev_j}
    /\ pc' = "fault"
    /\ UNCHANGED <<fn, s0, ret, caller, calls, s_len, rev_i, rev_j>>
    /\ UNCHANGED itoaVars
    /\ UNCHANGED floatVars

\* line 91: i < j is false, the function returns
ReverseExit ==
    /\ pc = "rev_loop"
    /\ ~U32Lt(U32(rev_i), rev_j)
    /\ pc' = IF caller = "itoa" THEN "itoa_return" ELSE "done"
    /\ UNCHANGED <<fn, s, s0, ret, caller, calls>>
    /\ UNCHANGED itoaVars
    /\ UNCHANGED revVars
    /\ UNCHANGED floatVars

\* utils_reverse applied a second time to the same buffer with the same s_len
ReverseAgain ==
    /\ fn = "reverse"
    /\ pc = "done"
    /\ calls = 1
    /\ calls' = 2
    /\ pc' = "rev_entry"
    /\ UNCHANGED <<fn, s, s0, ret, caller>>
    /\ UNCHANGED itoaVars
    /\ UNCHANGED revVars
    /\ UNCHANGED floatVars

-----------------------------------------------------------------------------
(* utils_float_to_char, lines 14-81 *)

\* a / b and a % b of C: the quotient truncates toward zero
CDiv(a, b) == IF a >= 0 THEN a \div b ELSE -((-a) \div b)

CRem(a, b) == IF a >= 0 THEN a % b ELSE -((-a) % b)

\* the int16_t with the same low 16 bits as x
WrapInt16(x) == ((x + TwoPow15) % TwoPow16) - TwoPow15

\* the input is huge when it is scaled by 10^HugeExp: its integer part is then
\* val * 10^(HugeExp - 3), a multiple of 2^16 beyond the range of int32_t
IsHuge(e) == e > 0

\* the magnitude of the input in thousandths (of the unscaled val)
Magnitude(v) == IF v < 0 THEN -v ELSE v

\* (int16_t) f for a float f >= 0 whose truncation is x.  Where x does not fit
\* in int16_t the conversion is undefined; mode names what the build leaves:
\*   "wrap"  the low 16 bits of the integer,
\*   "sat"   the nearest int16_t,
\*   "sat32" the low 16 bits of the integer saturated to int32_t.
ToInt16(x, huge, mode) ==
    IF ~huge /\ x < TwoPow15 THEN x
    ELSE CASE mode = "sat"   -> TwoPow15 - 1
           [] mode = "wrap"  -> IF huge THEN 0 ELSE WrapInt16(x)
           [] mode = "sat32" -> IF huge THEN -1 ELSE WrapInt16(x)

\* lines 38, 47: decimals = (int16_t)( |val| * 100 ) % 100, stored in a uint16_t
FloatDecimalsOf(v, e, mode) ==
    CRem(ToInt16(Magnitude(v) \div (1000 \div Scale), IsHuge(e), mode), Scale) % TwoPow16

\* lines 39, 48: units = (int16_t) |val|
FloatUnitsOf(v, e, mode) == ToInt16(Magnitude(v) \div 1000, IsHuge(e), mode)

FloatUnitsLoop_AlsoZero(u) == u >= 0

\* line 56: while ( units > 0 )
FloatUnitsLoop(u) == u > 0

\* line 73: if ( 0 != tmp[i] )
FloatKeep(b) == b # CharNul

\* lines 26-29: clear the output buffer
FloatClear ==
    /\ pc = "float_entry"
    /\ out' = [k \in 0..(TmpLen - 1) |-> 0]
    /\ pc' = "float_split"
    /\ UNCHANGED <<fn, s, s0, ret, caller, calls>>
    /\ UNCHANGED itoaVars
    /\ UNCHANGED revVars
    /\ UNCHANGED <<val, valExp, conv, tmp, sp, decimals, units, f_i, f_j, tmpOob>>

\* lines 31-40: val < 0
FloatNegative ==
    /\ pc = "float_split"
    /\ val < 0
    /\ decimals' = FloatDecimalsOf(val, valExp, conv)
    /\ units' = FloatUnitsOf(val, valExp, conv)
    /\ pc' = "float_decimals"
    /\ UNCHANGED <<fn, s, s0, ret, caller, calls>>
    /\ UNCHANGED itoaVars
    /\ UNCHANGED revVars
    /\ UNCHANGED <<val, valExp, conv, out, tmp, sp, f_i, f_j, tmpOob>>

\* lines 41-49: val >= 0
FloatPositive ==
    /\ pc = "float_split"
    /\ val >= 0
    /\ decimals' = FloatDecimalsOf(val, valExp, conv)
    /\ units' = FloatUnitsOf(val, valExp, conv)
    /\ pc' = "float_decimals"
    /\ UNCHANGED <<fn, s, s0, ret, caller, calls>>
    /\ UNCHANGED itoaVars
    /\ UNCHANGED revVars
    /\ UNCHANGED <<val, valExp, conv, out, tmp, sp, f_i, f_j, tmpOob>>

\* lines 51-54: the two decimal digits and the separator, back to front
FloatDecimals ==
    /\ pc = "float_decimals"
    /\ tmp' = [tmp EXCEPT ![sp - 1] = ((decimals % Base) + CharZero) % 256,
                          ![sp - 2] = (((decimals \div Base) % Base) + CharZero) % 256,
                          ![sp - 3] = CharDot]
    /\ decimals' = decimals \div Base
    /\ sp' = sp - 3
    /\ pc' = "float_units"
    /\ UNCHANGED <<fn, s, s0, ret, caller, calls>>
    /\ UNCHANGED itoaVars
    /\ UNCHANGED revVars
    /\ UNCHANGED <<val, valExp, conv, out, units, f_i, f_j, tmpOob>>

\* lines 56-60: one pass of the units loop; nothing stops s at tmp
FloatUnitDigit ==
    /\ pc = "float_units"
    /\ FloatUnitsLoop(units)
    /\ sp' = sp - 1
    /\ IF sp - 1 >= 0
       THEN /\ tmp' = [tmp EXCEPT ![sp - 1] = ((units % Base) + CharZero) % 256]
            /\ UNCHANGED <<pc, tmpOob>>
       ELSE /\ tmpOob' = TRUE
            /\ pc' = "fault"
            /\ UNCHANGED tmp
    /\ units' = CDiv(units, Base)
    /\ UNCHANGED <<fn, s, s0, ret, caller, calls>>
    /\ UNCHANGED itoaVars
    /\ UNCHANGED revVars
    /\ UNCHANGED <<val, valExp, conv, out, decimals, f_i, f_j>>

\* lines 56, 62-65: the loop is left, val < 0: the sign
FloatSign ==
    /\ pc = "float_units"
    /\ ~FloatUnitsLoop(units)
    /\ val < 0
    /\ sp' = sp - 1
    /\ IF sp - 1 >= 0
       THEN /\ tmp' = [tmp EXCEPT ![sp - 1] = CharMinus]
            /\ pc' = "float_copy"
            /\ UNCHANGED tmpOob
       ELSE /\ tmpOob' = TRUE
            /\ pc' = "fault"
            /\ UNCHANGED tmp
    /\ f_i' = 0
    /\ UNCHANGED <<fn, s, s0, ret, caller, calls>>
    /\ UNCHANGED itoaVars
    /\ UNCHANGED revVars
    /\ UNCHANGED <<val, valExp, conv, out, decimals, units, f_j>>

\* lines 56, 62: the loop is left, val >= 0
FloatNoSign ==
    /\ pc = "float_units"
    /\ ~FloatUnitsLoop(units)
    /\ val >= 0
    /\ f_i' = 0
    /\ pc' = "float_copy"
    /\ UNCHANGED <<fn, s, s0, ret, caller, calls>>
    /\ UNCHANGED itoaVars
    /\ UNCHANGED revVars
    /\ UNCHANGED <<val, valExp, conv, out, tmp, sp, decimals, units, f_j, tmpOob>>

\* lines 71-78: one pass of the copy loop
FloatCopy ==
    /\ pc = "float_copy"
    /\ f_i < TmpLen
    /\ IF FloatKeep(tmp[f_i])
       THEN /\ out' = [out EXCEPT ![f_j] = tmp[f_i]]
            /\ f_j' = f_j + 1
       ELSE UNCHANGED <<out, f_j>>
    /\ f_i' = f_i + 1
    /\ UNCHANGED <<fn, pc, s, s0, ret, caller, calls>>
    /\ UNCHANGED itoaVars
    /\ UNCHANGED revVars
    /\ UNCHANGED <<val, valExp, conv, tmp, sp, decimals, units, tmpOob>>

\* lines 71, 80: the copy loop is left, s is returned
FloatReturn ==
    /\ pc = "float_copy"
    /\ f_i >= TmpLen
    /\ ret' = sp
    /\ pc' = "done"
    /\ UNCHANGED <<fn, s, s0, caller, calls>>
    /\ UNCHANGED itoaVars
    /\ UNCHANGED revVars
    /\ UNCHANGED floatVars

-----------------------------------------------------------------------------
(* The calls analysed *)

ItoaBufLen == MaxSMax + ItoaSlack

\* inputs of utils_itoa: every small n, the ends of int32_t, powers of ten
ItoaInputs ==
    (-SmallN..SmallN)
      \cup {Int32Min, Int32Min + 1, Int32Max, -128, 99, 100, -100, 123, -123,
            12345, -12345, 999999999, 1000000000, -1000000000}

\* a buffer before the call: one byte value throughout
FillBytes == {165, 0}

RevBytes == {65, 66, 67}


\* inputs of utils_float_to_char in thousandths
FloatSmallInputs ==
    {0, 5, 10, 50, 90, 100, 1000, 1999, 2500, 3000, 3100, 10050, 100000, 100010,
     327670, 327679, 327680, 328360, 655359, 655360, 656000, 1000000,
     20000000, 32767999}

FloatHugeInputs == {1000, 1234567, 9999999}

ConvModes == {"wrap", "sat", "sat32"}

IdleS == [k \in 0..0 |-> 0]

IdleItoa ==
    /\ n = 0 /\ s_max = 0 /\ i = 0 /\ is_minus = FALSE /\ nr = U32(0) /\ writes = {}

IdleReverse ==
    /\ s_len = 0 /\ rev_i = 0 /\ rev_j = U32(0) /\ touched = {} /\ oob = {}

IdleFloat ==
    /\ val = 0 /\ valExp = 0 /\ conv = "wrap"
    /\ out = [k \in 0..(TmpLen - 1) |-> 0]
    /\ tmp = [k \in 0..(TmpLen - 1) |-> 0]
    /\ sp = TmpLen /\ decimals = 0 /\ units = 0 /\ f_i = 0 /\ f_j = 0
    /\ tmpOob = FALSE

\* a call utils_itoa( n, s, s_max )
InitItoa ==
    /\ fn = "itoa" /\ pc = "itoa_entry"
    /\ \E b \in FillBytes : s = [k \in 0..(ItoaBufLen - 1) |-> b]
    /\ s0 = s
    /\ n \in ItoaInputs
    /\ s_max \in 0..MaxSMax
    /\ i = 0 /\ is_minus = FALSE /\ nr = U32(0) /\ writes = {}
    /\ ret = NoRet /\ caller = "none" /\ calls = 0
    /\ IdleReverse
    /\ IdleFloat

\* a call utils_reverse( s, s_len ) on a buffer of RevBufLen bytes
InitReverse ==
    /\ fn = "reverse" /\ pc = "rev_entry"
    /\ s \in [0..(RevBufLen - 1) -> RevBytes]
    /\ s0 = s
    /\ s_len \in 0..RevBufLen
    /\ rev_i = 0 /\ rev_j = U32(0) /\ touched = {} /\ oob = {}
    /\ ret = NoRet /\ caller = "none" /\ calls = 1
    /\ IdleItoa
    /\ IdleFloat

\* a call utils_float_to_char( val, out )
InitFloat ==
    /\ fn = "float" /\ pc = "float_entry"
    /\ \E m \in FloatSmallInputs \cup FloatHugeInputs : val \in {m, -m}
    /\ valExp = IF Magnitude(val) \in FloatHugeInputs THEN HugeExp ELSE 0
    /\ conv \in ConvModes
    /\ \E b \in FillBytes : out = [k \in 0..(TmpLen - 1) |-> b]
    /\ tmp = [k \in 0..(TmpLen - 1) |-> 0]
    /\ sp = TmpLen /\ decimals = 0 /\ units = 0 /\ f_i = 0 /\ f_j = 0
    /\ tmpOob = FALSE
    /\ s = IdleS /\ s0 = IdleS
    /\ ret = NoRet /\ caller = "none" /\ calls = 0
    /\ IdleItoa
    /\ IdleReverse

Init == InitItoa \/ InitReverse \/ InitFloat

Next ==
    \/ ItoaNegative
    \/ ItoaNegativeOverflow
    \/ ItoaPositive
    \/ ItoaDigit
    \/ ItoaFinish
    \/ ItoaTruncated
    \/ ItoaReturn
    \/ ReverseEnter
    \/ ReverseSwap
    \/ ReverseSwapOutside
    \/ ReverseExit
    \/ ReverseAgain
    \/ FloatClear
    \/ FloatNegative
    \/ FloatPositive
    \/ FloatDecimals
    \/ FloatUnitDigit
    \/ FloatSign
    \/ FloatNoSign
    \/ FloatCopy
    \/ FloatReturn

Spec == Init /\ [][Next]_vars

-----------------------------------------------------------------------------
(* Reference notions the claims are stated with *)

\* the decimal digits of |m| for m <= 0, least significant first (0 gives <<0>>)
RECURSIVE LsfDigits(_)
LsfDigits(m) ==
    LET d == (Base - (m % Base)) % Base
        q == (m + d) \div Base
    IN  IF q = 0 THEN <<d>> ELSE <<d>> \o LsfDigits(q)

NegMag(v) == IF v > 0 THEN -v ELSE v

NumDigits(v) == Len(LsfDigits(NegMag(v)))

\* the standard decimal representation of v as a sequence of bytes
Decimal(v) ==
    LET ds == LsfDigits(NegMag(v))
        body == [k \in 1..Len(ds) |-> ds[Len(ds) + 1 - k] + CharZero]
    IN  IF v < 0 THEN <<CharMinus>> \o body ELSE body

\* buf[0..Len(str)-1] is str
BufHolds(buf, str) == \A k \in 1..Len(str) : buf[k - 1] = str[k]

\* the whole out buffer is str followed by zero bytes
OutIs(str) ==
    \A k \in 0..(TmpLen - 1) : out[k] = IF k < Len(str) THEN str[k + 1] ELSE CharNul

ItoaEnded == fn = "itoa" /\ pc \in {"done", "trap"}

ItoaReturned == fn = "itoa" /\ pc = "done"

Truncated == ~U32IsZero(nr)

DigitWrites == {w \in writes : w.kind = "digit"}

-----------------------------------------------------------------------------
(* Claims *)

\* C1: for every int32_t n and every s_max that is at least the number of
\* decimal digits of |n|, the call ends with the standard decimal representation
\* of n in s, a '\0' at the index equal to the returned count, and the count
\* equal to the length of the string.
C1_ItoaDecimal ==
    (ItoaEnded /\ s_max >= NumDigits(n)) =>
        /\ ret = Len(Decimal(n))
        /\ BufHolds(s, Decimal(n))
        /\ s[Len(Decimal(n))] = CharNul

\* C2 as stated: for s_max >= 1 the returned count equals s_max exactly when
\* the capacity bound was hit before the value was consumed.
C2_CountEqualsSMaxIffTruncated ==
    (ItoaReturned /\ s_max >= 1) => ((ret = s_max) <=> Truncated)

\* C2 as amended: for s_max >= 1 a truncated call returns s_max and leaves the
\* buffer unterminated and unreversed, and a returned count other than s_max
\* comes only from a complete, terminated, reversed string (a complete call may
\* also return s_max).
C2_TruncationReturnsSMax ==
    (ItoaReturned /\ s_max >= 1) =>
        /\ Truncated =>
             /\ ret = s_max
             /\ calls = 0
             /\ \A w \in writes : w.kind = "digit"
        /\ ret # s_max =>
             /\ ~Truncated
             /\ ret = Len(Decimal(n))
             /\ BufHolds(s, Decimal(n))
             /\ s[ret] = CharNul

C2_Witness == ItoaReturned /\ s_max >= 1 /\ Truncated /\ n = 12345 /\ s_max = 3

\* C3: on the truncation path (s_max >= 1, |n| has more than s_max digits) the
\* count returned is s_max, s[0..s_max-1] are the s_max least significant digits
\* of |n| least significant first, no '-' and no '\0' is stored, utils_reverse
\* is not called and every byte at an index >= s_max is unchanged.
C3_TruncationPath ==
    (ItoaReturned /\ s_max >= 1 /\ NumDigits(n) > s_max) =>
        /\ ret = s_max
        /\ \A k \in 0..(s_max - 1) : s[k] = LsfDigits(NegMag(n))[k + 1] + CharZero
        /\ \A w \in writes : w.kind = "digit"
        /\ calls = 0
        /\ \A k \in DOMAIN s : k >= s_max => s[k] = s0[k]

C3_Witness ==
    /\ ItoaReturned /\ n = 12345 /\ s_max = 3 /\ ret = 3
    /\ s[0] = CharZero + 5 /\ s[1] = CharZero + 4 /\ s[2] = CharZero + 3

\* C4: for s_len >= 1 utils_reverse moves the byte at each index k < s_len to
\* index s_len-1-k, a second call with the same s_len restores the buffer, and
\* a byte at an index >= s_len is never changed.
C4_ReverseInvolution ==
    (fn = "reverse" /\ s_len >= 1) =>
        /\ \A k \in DOMAIN s : k >= s_len => s[k] = s0[k]
        /\ (pc = "done" /\ calls = 1) =>
               \A k \in 0..(s_len - 1) : s[s_len - 1 - k] = s0[k]
        /\ (pc = "done" /\ calls = 2) => s = s0
        /\ pc # "fault"

C4_Witness ==
    /\ fn = "reverse" /\ pc = "done" /\ calls = 2
    /\ s_len >= 3 /\ s0[0] # s0[s_len - 1] /\ s = s0

\* C5: utils_float_to_char trims the trailing zero decimal digits, and only
\* those: 3.10 gives "3.1", 3.00 gives "3", -2.5 gives "-2.5", 0.0 gives "0",
\* the rest of the 20-byte buffer being zero bytes.
C5_TrimsTrailingZeroDecimals ==
    (fn = "float" /\ pc = "done") =>
        /\ val = 3100 => OutIs(<<CharZero + 3, CharDot, CharZero + 1>>)
        /\ val = 3000 => OutIs(<<CharZero + 3>>)
        /\ val = -2500 => OutIs(<<CharMinus, CharZero + 2, CharDot, CharZero + 5>>)
        /\ val = 0 => OutIs(<<CharZero>>)

\* C6 as stated: a value whose integer part is large enough makes the write
\* pointer s move below tmp[0], so that the call stores outside tmp.
C6_LargeValueLeavesTmp ==
    (fn = "float" /\ pc \in {"done", "fault"} /\ IsHuge(valExp)) => tmpOob

\* C6 as amended: for every input value, however large its integer part, the
\* write pointer stays inside tmp: units is an int16_t, so at most 5 unit
\* digits follow the 3 bytes of the decimals and at most one sign, and s never
\* goes below tmp + 11.
C6_WritePointerStaysInTmp ==
    fn = "float" => (~tmpOob /\ pc # "fault" /\ sp >= TmpLen - 9 /\ sp <= TmpLen)

C6_Witness ==
    /\ fn = "float" /\ pc = "done" /\ IsHuge(valExp)
    /\ sp = TmpLen - 9 /\ tmp[sp] = CharMinus

\* C7: for every value with |v| < 32768, 16-bit conversions wrapping around,
\* units is trunc(|v|) and decimals is trunc(|v| * 100) mod 100: the two
\* decimal digits emitted are the first two fractional digits of |v|.
C7_TrueTwoDecimals ==
    (fn = "float" /\ conv = "wrap" /\ ~IsHuge(valExp)
       /\ Magnitude(val) < TwoPow15 * 1000) =>
        /\ pc = "float_decimals" =>
             /\ units = Magnitude(val) \div 1000
             /\ decimals % Scale = (Magnitude(val) \div Base) % Scale
        /\ pc = "done" =>
             /\ tmp[TmpLen - 2] = CharZero + ((Magnitude(val) \div Scale) % Base)
             /\ tmp[TmpLen - 1] = CharZero + ((Magnitude(val) \div Base) % Base)

\* C8: with the negation of n wrapping modulo 2^32, nr is the mathematical |n|
\* for every n < 0 (2147483648 for n = -2147483648), and for n = -2147483648
\* and s_max >= 10 the call leaves "-2147483648", a '\0' after it, and returns 11.
C8_MostNegative ==
    fn = "itoa" =>
        /\ (n < 0 /\ pc = "itoa_loop" /\ i = 0) =>
               nr = IF n = Int32Min THEN [hi |-> TwoPow15, lo |-> 0] ELSE U32(-n)
        /\ (n = Int32Min /\ s_max >= 10 /\ pc = "done") =>
               /\ ret = 11
               /\ BufHolds(s, <<45, 50, 49, 52, 55, 52, 56, 51, 54, 52, 56>>)
               /\ s[11] = CharNul

C8_Witness ==
    /\ ItoaReturned /\ n = Int32Min /\ s_max = 10 /\ ret = 11
    /\ s[0] = CharMinus /\ s[1] = CharZero + 2 /\ s[10] = CharZero + 8

\* C9: for every n and every s_max, s_max = 0 included, at most s_max digit
\* characters are emitted: digits are stored only at indices below s_max, and
\* the highest index stored to is at most s_max + 1.
C9_DigitsBelowSMax ==
    fn = "itoa" =>
        /\ \A w \in DigitWrites : w.idx < s_max
        /\ Cardinality(DigitWrites) <= s_max
        /\ \A w \in writes : w.idx <= s_max + 1

\* C10: every call utils_itoa makes to utils_reverse has length >= 1, so j
\* never wraps to 2^32 - 1 there; for s_len >= 1 every index utils_reverse
\* reads or writes lies in 0..s_len-1; with s_len = 0 its first swap touches
\* index 2^32 - 1.
C10_ReverseIndices ==
    /\ (caller = "itoa" /\ pc \in {"rev_entry", "rev_loop", "fault"}) =>
           /\ s_len >= 1
           /\ pc # "fault"
           /\ pc = "rev_loop" => rev_j # U32Max
    /\ ((fn = "reverse" \/ caller = "itoa") /\ s_len >= 1) =>
           /\ touched \subseteq 0..(s_len - 1)
           /\ oob = {}
    /\ (fn = "reverse" /\ s_len = 0) =>
           /\ pc = "rev_loop" => (rev_i = 0 /\ rev_j = U32Max)
           /\ pc \in {"rev_entry", "rev_loop", "fault"}
           /\ pc = "fault" => (oob = {U32Max} /\ touched = {0})

C10_Witness == fn = "reverse" /\ s_len = 0 /\ pc = "fault" /\ oob = {U32Max}

====
